---- MODULE Spec2Model ----
(***************************************************************************)
(* Model of the Boehringer XML corrector (src/app.py): the order-number    *)
(* extractor find_order_number, the tag upsert engine correct_xml, the     *)
(* reference table loader with its demonstration fallback, and the batch   *)
(* loop that fills the results ledger.                                     *)
(*                                                                         *)
(* Python strings are sequences of one-character strings.  A Python value  *)
(* that may be None, a str or a non-str scalar (the float nan that pandas  *)
(* gives for an empty cell) is a record [k, s].  An element of an          *)
(* ElementTree is a record [tag, text, attrib, children]; a reference to   *)
(* an element inside a tree is the path of child indices leading to it.    *)
(* Tails (text between siblings) are never read or written by the program  *)
(* and are not part of the element record.                                 *)
(***************************************************************************)
EXTENDS Integers, Sequences, FiniteSets, TLC

\* ------------------------------------------------------------------ bounds
\* Longest raw identifier text drawn for the extractor.
MaxLen == 6
\* Most elements below the root of a drawn document.
MaxNodes == 3
\* Most files in one upload.
MaxFiles == 3

Range(f) == {f[i] : i \in DOMAIN f}

\* ------------------------------------------------------------ Python values
NoneV == [k |-> "None", s |-> <<>>]
NaN == [k |-> "float", s |-> <<>>]
Str(s) == [k |-> "str", s |-> s]

\* Truthiness of a None / str / nan value (nan is a non-zero float).
Truthy(v) == (v.k = "float") \/ (v.k = "str" /\ v.s # <<>>)

\* str.isspace for one character.
IsSpace(c) == c \in {" ", "\t", "\n"}

RECURSIVE lstrip(_)
lstrip(s) ==
    IF s # <<>> /\ IsSpace(Head(s)) THEN lstrip(Tail(s)) ELSE s

RECURSIVE rstrip(_)
rstrip(s) ==
    IF s # <<>> /\ IsSpace(s[Len(s)]) THEN rstrip(SubSeq(s, 1, Len(s) - 1)) ELSE s

\* str.strip()
strip(s) == rstrip(lstrip(s))

Zeros(n) == [i \in 1..n |-> "0"]

\* A padding that takes no account of a sign: zeros always at the front.
zfill_unsigned(s, width) ==
    IF Len(s) >= width THEN s ELSE Zeros(width - Len(s)) \o s

\* str.zfill(width): zeros go after a leading sign character.
zfill(s, width) ==
    IF Len(s) >= width THEN s
    ELSE IF s # <<>> /\ Head(s) \in {"+", "-"}
         THEN <<Head(s)>> \o Zeros(width - Len(s)) \o Tail(s)
         ELSE Zeros(width - Len(s)) \o s

\* The width both the extractor and the loader pad to.
Width == 6

RECURSIVE TakeToken(_)
TakeToken(s) ==
    IF s = <<>> \/ IsSpace(Head(s)) THEN <<>> ELSE <<Head(s)>> \o TakeToken(Tail(s))

\* str.split()[0]: the first whitespace-delimited token; ok is FALSE when
\* split() returns the empty list (IndexError).
SplitFirst(s) ==
    LET t == lstrip(s)
    IN  [ok |-> t # <<>>, tok |-> TakeToken(t)]

\* ------------------------------------------------------------- ElementTree
EmptyAttrib == <<>>

Elem(tag, text, attrib, children) ==
    [tag |-> tag, text |-> text, attrib |-> attrib, children |-> children]

\* ET.SubElement's new element: no text, no attributes, no children.
NewElem(tag) == Elem(tag, NoneV, EmptyAttrib, <<>>)

RECURSIVE GetAt(_, _)
GetAt(e, p) == IF p = <<>> THEN e ELSE GetAt(e.children[Head(p)], Tail(p))

RECURSIVE SetAt(_, _, _)
SetAt(e, p, n) ==
    IF p = <<>> THEN n
    ELSE [e EXCEPT !.children[Head(p)] = SetAt(@, Tail(p), n)]

\* ET.SubElement(parent, tag) on the element at path p: appended last.
SubElement(root, p, tag) ==
    LET parent == GetAt(root, p)
    IN  SetAt(root, p, [parent EXCEPT !.children = Append(@, NewElem(tag))])

SetText(root, p, v) == SetAt(root, p, [GetAt(root, p) EXCEPT !.text = v])

NotFound == [found |-> FALSE, path |-> <<>>]
Found(p) == [found |-> TRUE, path |-> p]

\* First element named tag among kids[i..] and their descendants, in
\* document order.
RECURSIVE FirstIn(_, _, _)
FirstIn(kids, i, tag) ==
    IF i > Len(kids) THEN NotFound
    ELSE IF kids[i].tag = tag THEN Found(<<i>>)
    ELSE LET sub == FirstIn(kids[i].children, 1, tag)
         IN  IF sub.found THEN Found(<<i>> \o sub.path)
             ELSE FirstIn(kids, i + 1, tag)

\* A search that looks at the direct children alone.
FindDirectChildOnly(e, tag) ==
    LET hits == {i \in 1..Len(e.children) : e.children[i].tag = tag}
    IN  IF hits = {} THEN NotFound
        ELSE Found(<<CHOOSE i \in hits : \A j \in hits : i <= j>>)

\* Element.find(".//tag"): the first descendant (never the element itself)
\* in document order.
FindDesc(e, tag) == FirstIn(e.children, 1, tag)

\* Element.find("tag"): the first direct child, 0 when there is none.
FindChild(e, tag) ==
    LET hits == {i \in 1..Len(e.children) : e.children[i].tag = tag}
    IN  IF hits = {} THEN 0 ELSE CHOOSE i \in hits : \A j \in hits : i <= j

\* Element.iter(): the element and its descendants in document order.
RECURSIVE Iter(_)
RECURSIVE IterKids(_, _)
Iter(e) == <<e>> \o IterKids(e.children, 1)
IterKids(kids, i) ==
    IF i > Len(kids) THEN <<>> ELSE Iter(kids[i]) \o IterKids(kids, i + 1)

NodeCount(e) == Len(Iter(e))

\* An attribute dictionary is the sequence of its [name, value] items in
\* insertion (document) order.
HasAttr(e, attr) == \E i \in 1..Len(e.attrib) : e.attrib[i].name = attr
AttrValue(e, attr) ==
    e.attrib[CHOOSE i \in 1..Len(e.attrib) : e.attrib[i].name = attr].value

\* ------------------------------------------------------- find_order_number
search_paths ==
    <<"OrderNumber", "CommandNumber", "NumeroCommande", "ContractNumber", "Reference">>

search_attrs == <<"orderNumber", "commandNumber", "numero", "ref">>

\* The (None, None) a fruitless search returns; no tag is named "None".
NoOrderNumber == [num_cmd |-> NoneV, found_in |-> "None"]

\* elem.text.strip().zfill(6)
Normalize(s) == zfill(strip(s), Width)

\* The inner loop over the attribute names of one element.
RECURSIVE FirstAttr(_, _)
FirstAttr(e, j) ==
    IF j > Len(search_attrs) THEN NoOrderNumber
    ELSE IF HasAttr(e, search_attrs[j])
         THEN [num_cmd |-> Str(Normalize(AttrValue(e, search_attrs[j]))),
               found_in |-> "@" \o search_attrs[j]]
         ELSE FirstAttr(e, j + 1)

\* The loop over root.iter().
RECURSIVE SearchAttrs(_, _)
SearchAttrs(elems, i) ==
    IF i > Len(elems) THEN NoOrderNumber
    ELSE LET hit == FirstAttr(elems[i], 1)
         IN  IF hit.found_in # "None" THEN hit ELSE SearchAttrs(elems, i + 1)

\* The loop over search_paths, from the i-th name on; falls through to the
\* attribute search.
RECURSIVE SearchElems(_, _)
SearchElems(root, i) ==
    IF i > Len(search_paths) THEN SearchAttrs(Iter(root), 1)
    ELSE LET f == FindDesc(root, search_paths[i])
         IN  IF f.found /\ Truthy(GetAt(root, f.path).text)
             THEN [num_cmd |-> Str(Normalize(GetAt(root, f.path).text.s)),
                   found_in |-> search_paths[i]]
             ELSE SearchElems(root, i + 1)

find_order_number(root) == SearchElems(root, 1)

\* ------------------------------------------------------------- correct_xml
PosChar == "PositionCharacteristics"
CreationPosChar == "Creation de la section PositionCharacteristics"
AjoutPosStatus == "Ajout de PositionStatus"
AjoutPosLevel == "Ajout de PositionLevel"
AjoutPosCoef == "Ajout de PositionCoefficient"

\* EnsureChild without the find: a new child on every call.
EnsureChild_always_new(root, parent, tag) ==
    [root |-> SubElement(root, parent, tag),
     path |-> parent \o <<Len(GetAt(root, parent).children) + 1>>,
     created |-> TRUE]

\* parent.find(tag), then ET.SubElement(parent, tag) when it is None.
EnsureChild(root, parent, tag) ==
    LET i == FindChild(GetAt(root, parent), tag)
    IN  IF i # 0
        THEN [root |-> root, path |-> parent \o <<i>>, created |-> FALSE]
        ELSE [root |-> SubElement(root, parent, tag),
              path |-> parent \o <<Len(GetAt(root, parent).children) + 1>>,
              created |-> TRUE]

\* The outcome of a call: raised is "" on return, else the exception type;
\* root is the tree as the call left it (mutated in place up to the raise).
Outcome(raised, root, corrections) ==
    [raised |-> raised, root |-> root, corrections |-> corrections]

\* Lines 123-130: PositionCoefficient.
UpsertCoefficient(root, pos_char, cd, corrections) ==
    LET e == EnsureChild(root, pos_char, "PositionCoefficient")
        c == IF e.created THEN Append(corrections, AjoutPosCoef) ELSE corrections
    IN  IF "HRBP" \notin DOMAIN cd THEN Outcome("KeyError", e.root, c)
        ELSE Outcome("", SetText(e.root, e.path, cd["HRBP"]), c)

\* Lines 116-121: PositionLevel.
UpsertLevel(root, pos_char, cd, corrections) ==
    LET e == EnsureChild(root, pos_char, "PositionLevel")
        c == IF e.created THEN Append(corrections, AjoutPosLevel) ELSE corrections
    IN  IF "Classification" \notin DOMAIN cd THEN Outcome("KeyError", e.root, c)
        ELSE UpsertCoefficient(SetText(e.root, e.path, cd["Classification"]),
                               pos_char, cd, c)

\* Lines 100-114: PositionStatus with its Code and Description.
UpsertStatus(root, pos_char, cd, corrections) ==
    LET e == EnsureChild(root, pos_char, "PositionStatus")
        c == IF e.created THEN Append(corrections, AjoutPosStatus) ELSE corrections
        code == EnsureChild(e.root, e.path, "Code")
    IN  IF "Statut" \notin DOMAIN cd THEN Outcome("KeyError", code.root, c)
        ELSE IF cd["Statut"].k # "str" THEN Outcome("AttributeError", code.root, c)
        ELSE IF ~SplitFirst(cd["Statut"].s).ok THEN Outcome("IndexError", code.root, c)
        ELSE LET r1 == SetText(code.root, code.path, Str(SplitFirst(cd["Statut"].s).tok))
                 desc == EnsureChild(r1, e.path, "Description")
                 r2 == SetText(desc.root, desc.path, cd["Statut"])
             IN  UpsertLevel(r2, pos_char, cd, c)

correct_xml(root, commande_data) ==
    LET f == FindDesc(root, PosChar)
        r == IF f.found THEN root ELSE SubElement(root, <<>>, PosChar)
        pos_char == IF f.found THEN f.path ELSE <<Len(root.children) + 1>>
        corrections == IF f.found THEN <<>> ELSE <<CreationPosChar>>
    IN  UpsertStatus(r, pos_char, commande_data, corrections)

\* ------------------------------------------------------------- ET.tostring
EscapeCData(c) ==
    CASE c = "&" -> "&amp;"
      [] c = "<" -> "&lt;"
      [] c = ">" -> "&gt;"
      [] OTHER -> c

RECURSIVE SerializeAttrs(_, _)
SerializeAttrs(attrib, i) ==
    IF i > Len(attrib) THEN <<>>
    ELSE <<" ", attrib[i].name, "=\"">> \o attrib[i].value \o <<"\"">>
         \o SerializeAttrs(attrib, i + 1)

\* _serialize_xml: start tag, text, children, end tag; the short form for
\* an element with neither text nor children.
RECURSIVE Serialize(_)
RECURSIVE SerializeKids(_, _)
Serialize(e) ==
    IF Truthy(e.text) \/ Len(e.children) > 0
    THEN <<"<", e.tag>> \o SerializeAttrs(e.attrib, 1) \o <<">">>
         \o [i \in 1..Len(e.text.s) |-> EscapeCData(e.text.s[i])]
         \o SerializeKids(e.children, 1)
         \o <<"</", e.tag, ">">>
    ELSE <<"<", e.tag>> \o SerializeAttrs(e.attrib, 1) \o <<" />">>
SerializeKids(kids, i) ==
    IF i > Len(kids) THEN <<>> ELSE Serialize(kids[i]) \o SerializeKids(kids, i + 1)

\* A text that is not a str cannot be escaped: TypeError.
Serializable(e) == \A i \in 1..NodeCount(e) : Iter(e)[i].text.k # "float"

tostring(root) ==
    IF Serializable(root)
    THEN [raised |-> "", content |-> Serialize(root)]
    ELSE [raised |-> "TypeError", content |-> <<>>]

\* ------------------------------------------------------------------- state
VARIABLES
    pc,                 \* position of the script: load, idle, ready, loop, done
    df,                 \* the reference table in use
    error,              \* the error load_data_from_github returned, or None
    errors_shown,       \* number of st.error calls made for the load
    uploaded_files,     \* the upload: a sequence of [name, content]
    idx,                \* files of the upload the loop has gone through
    results,            \* the results ledger
    corrected_files,    \* the corrected documents kept for download
    total_corrections,  \* the running total of structural changes
    stats,              \* the aggregate statistics shown after the loop
    root,               \* the document tree a function is applied to
    before,             \* that tree as it was before the last call
    commande_data,      \* the record handed to correct_xml
    rets,               \* what the calls made so far returned
    calls               \* number of calls made

batch_vars ==
    <<pc, df, error, errors_shown, uploaded_files, idx, results, corrected_files,
      total_corrections, stats>>
unit_vars == <<root, before, commande_data, rets, calls>>
vars == <<batch_vars, unit_vars>>

\* --------------------------------------------------------- drawn documents
\* Forests(K, n): the sequences of trees holding n elements in all, every
\* element of one of the kinds K (a kind gives tag, text and attributes).
RECURSIVE Forests(_, _)
RECURSIVE Trees(_, _)
Forests(K, n) ==
    IF n = 0 THEN {<<>>}
    ELSE UNION {{<<t>> \o f : t \in Trees(K, k), f \in Forests(K, n - k)} : k \in 1..n}
Trees(K, k) ==
    {Elem(kind.tag, kind.text, kind.attrib, f) : kind \in K, f \in Forests(K, k - 1)}

Kind(tag, text, attrib) == [tag |-> tag, text |-> text, attrib |-> attrib]

\* Documents with a root <Contract> over at most max elements of kinds K.
Docs(K, max) ==
    {Elem("Contract", NoneV, EmptyAttrib, f) :
        f \in UNION {Forests(K, n) : n \in 0..max}}

Attr(name, value) == <<[name |-> name, value |-> value]>>

Leaf(tag, text) == Elem(tag, text, EmptyAttrib, <<>>)
Contract(children) == Elem("Contract", NoneV, EmptyAttrib, children)

ExtractKinds ==
    {Kind("OrderNumber", NoneV, EmptyAttrib),
     Kind("OrderNumber", Str(<<"5", "4">>), EmptyAttrib),
     Kind("Reference", Str(<<"7">>), EmptyAttrib),
     Kind("Item", NoneV, EmptyAttrib),
     Kind("Item", NoneV, Attr("ref", <<"9">>)),
     Kind("Item", NoneV, Attr("numero", <<"3">>) \o Attr("orderNumber", <<"8">>))}

Chars == {"5", "a", "-", " "}

RECURSIVE StringsOfLen(_)
StringsOfLen(n) ==
    IF n = 0 THEN {<<>>}
    ELSE {<<c>> \o s : c \in Chars, s \in StringsOfLen(n - 1)}

\* Raw identifier texts: every string over Chars up to max characters, and
\* some with the other sign character.
RawValues(max) ==
    UNION {StringsOfLen(n) : n \in 1..max}
        \cup {<<"+", "5">>, <<" ", "+", "5", "a">>, <<"+">>, <<"5", "+", "5">>,
              <<"+", "5", "5", "5", "5", "5", "5">>}

\* <Contract><OrderNumber>v</OrderNumber></Contract>
Carrier(v) == Contract(<<Leaf("OrderNumber", Str(v))>>)

Old == Str(<<"o">>)

\* A document that already holds the whole tag group, under the root.
DocFull(id) ==
    Contract(<<Leaf("OrderNumber", Str(id)),
               Elem(PosChar, NoneV, EmptyAttrib,
                    <<Elem("PositionStatus", NoneV, EmptyAttrib,
                           <<Leaf("Code", Old), Leaf("Description", Old)>>),
                      Leaf("PositionLevel", Old),
                      Leaf("PositionCoefficient", Old)>>)>>)

\* A document whose tag group sits below an <Assignment>, with a second,
\* empty PositionCharacteristics directly under the root.
DocDeep(id) ==
    Contract(<<Elem("Assignment", NoneV, EmptyAttrib,
                    <<Leaf("OrderNumber", Str(id)),
                      Elem(PosChar, NoneV, EmptyAttrib,
                           <<Leaf("PositionLevel", Old)>>)>>),
               Leaf(PosChar, NoneV)>>)

\* A document whose first OrderNumber is empty and whose second is not.
DocTwoNumbers ==
    Contract(<<Leaf("OrderNumber", NoneV),
               Leaf("OrderNumber", Str(<<"5", "4">>)),
               Leaf("Reference", Str(<<"9", "9">>))>>)

\* A document that carries its identifier in an attribute of the root.
DocAttr(id) == Elem("Contract", NoneV, Attr("ref", id), <<Leaf("Item", NoneV)>>)

SampleDocs ==
    {DocFull(<<"6", "4", "6">>), DocDeep(<<" ", "5", "4", " ">>), DocTwoNumbers,
     DocAttr(<<"5", "4">>), Carrier(<<"5", "4">>), Contract(<<Leaf("Item", NoneV)>>)}

EngineKinds ==
    {Kind(PosChar, NoneV, EmptyAttrib),
     Kind("PositionStatus", NoneV, EmptyAttrib),
     Kind("Code", Old, EmptyAttrib),
     Kind("PositionLevel", Old, EmptyAttrib),
     Kind("Item", NoneV, EmptyAttrib)}

StatutN2 == Str(<<"N", "2", " ", "x">>)
ClassifC == Str(<<"c">>)
HrbpH == Str(<<"h">>)

\* Rows as DataFrame.iloc[0].to_dict() gives them: a missing column is a
\* missing key, an empty cell is nan.
EngineRecords ==
    {[Statut |-> StatutN2, Classification |-> ClassifC, HRBP |-> HrbpH],
     [Statut |-> NaN, Classification |-> ClassifC, HRBP |-> HrbpH],
     [Statut |-> Str(<<" ">>), Classification |-> ClassifC, HRBP |-> HrbpH],
     [Classification |-> ClassifC, HRBP |-> HrbpH],
     [Statut |-> StatutN2, Classification |-> NaN, HRBP |-> HrbpH],
     [Statut |-> StatutN2, Classification |-> Str(<<>>), HRBP |-> HrbpH],
     [Statut |-> StatutN2, Classification |-> ClassifC]}

\* The batch variables while only a function is exercised.
BatchIdle ==
    /\ pc = "off"
    /\ df = [columns |-> <<>>, rows |-> <<>>]
    /\ error = NoneV
    /\ errors_shown = 0
    /\ uploaded_files = <<>>
    /\ idx = 0
    /\ results = <<>>
    /\ corrected_files = <<>>
    /\ total_corrections = 0
    /\ stats = <<>>

\* ------------------------------------- find_order_number on drawn documents
InitExtract ==
    /\ BatchIdle
    /\ root \in Docs(ExtractKinds, MaxNodes) \cup SampleDocs
                    \cup {Carrier(v) : v \in RawValues(MaxLen)}
    /\ before = root
    /\ commande_data = <<>>
    /\ rets = <<>>
    /\ calls = 0

\* num_cmd, found_in = find_order_number(root)
Extract ==
    /\ calls = 0
    /\ rets' = Append(rets, find_order_number(root))
    /\ calls' = 1
    /\ before' = root
    /\ UNCHANGED <<root, commande_data, batch_vars>>

\* The identifier found is put in a document and extracted again.
ExtractAgain ==
    /\ calls = 1
    /\ Truthy(rets[1].num_cmd)
    /\ before' = root
    /\ root' = Carrier(rets[1].num_cmd.s)
    /\ rets' = Append(rets, find_order_number(root'))
    /\ calls' = 2
    /\ UNCHANGED <<commande_data, batch_vars>>

NextExtract == Extract \/ ExtractAgain

SpecExtract == InitExtract /\ [][NextExtract]_vars

\* -------------------------------------------- correct_xml on drawn documents
InitCorrect ==
    /\ BatchIdle
    /\ root \in Docs(EngineKinds, MaxNodes) \cup SampleDocs
    /\ before = root
    /\ commande_data \in EngineRecords
    /\ rets = <<>>
    /\ calls = 0

Call_correct_xml ==
    LET out == correct_xml(root, commande_data)
    IN  /\ before' = root
        /\ root' = out.root
        /\ rets' = Append(rets, [raised |-> out.raised, corrections |-> out.corrections])
        /\ calls' = calls + 1
        /\ UNCHANGED <<commande_data, batch_vars>>

\* corrections = correct_xml(root, commande_data)
Correct ==
    /\ calls = 0
    /\ Call_correct_xml

\* correct_xml again on the tree the first call returned normally from.
CorrectAgain ==
    /\ calls = 1
    /\ rets[1].raised = ""
    /\ Call_correct_xml

NextCorrect == Correct \/ CorrectAgain

SpecCorrect == InitCorrect /\ [][NextCorrect]_vars

\* --------------------------------------------------------- reference table
\* A DataFrame is its column names and its rows; a row maps every column to
\* a str or to nan.
NumColName == "Numero de commande"

\* The names for which 'num' in col.lower() and 'commande' in col.lower().
IsNumCol(col) == col \in {NumColName, "Num Commande", "NUMERO COMMANDE"}

AllColumns == <<NumColName, "Code agence", "Statut", "Classification", "HRBP">>

TableRow(num, agence, statut, classification, hrbp) ==
    [c \in Range(AllColumns) |->
        CASE c = NumColName -> num
          [] c = "Code agence" -> agence
          [] c = "Statut" -> statut
          [] c = "Classification" -> classification
          [] c = "HRBP" -> hrbp]

\* The demonstration DataFrame of lines 143-150.
DemoData ==
    [columns |-> AllColumns,
     rows |-> <<TableRow(Str(<<"0", "0", "0", "0", "5", "4">>),
                    Str(<<"L", "V", "2", "-", "L", "V", "2">>),
                    Str(<<"N", "2", " ", "-", " ", "N", "i", "v", "e", "a", "u", " ", "2", " ", "(", "4", "B", " ", "+", ")">>),
                    Str(<<"0", "4", "B", " ", "-", " ", "2", "2", "5">>),
                    Str(<<"G", "a", "b", "r", "i", "e", "l", "l", "e", " ", "H", "u", "m", "b", "e", "r", "t">>)),
                TableRow(Str(<<"0", "0", "0", "6", "4", "6">>),
                    Str(<<"L", "V", "2", "-", "L", "V", "2">>),
                    Str(<<"N", "1", " ", "-", " ", "N", "i", "v", "e", "a", "u", " ", "1", " ", "(", "2", "A", " ", "/", " ", "4", "A", ")">>),
                    Str(<<"0", "3", "B", " ", "-", " ", "1", "9", "5", " ", "E", "q", "u", "i", "p", "e">>),
                    Str(<<"H", "o", "u", "r", "i", "a", " ", "G", "h", "e", "r", "r", "a", "s">>))>>]

\* The first column whose name passes the test, "" when there is none
\* (num_col stays None).
NumCol(table) ==
    LET hits == {i \in 1..Len(table.columns) : IsNumCol(table.columns[i])}
    IN  IF hits = {} THEN ""
        ELSE table.columns[CHOOSE i \in hits : \A j \in hits : i <= j]

\* df[num_col].astype(str).str.zfill(6); the tables drawn hold unsigned
\* keys, on which every zfill pads alike.
ZfillColumn(table, col) ==
    [table EXCEPT !.rows =
        [i \in 1..Len(table.rows) |->
            [table.rows[i] EXCEPT ![col] = Str(zfill(@.s, Width))]]]

\* load_data_from_github on the response of the HTTP request: the table
\* pd.read_csv gives for a 200, the status otherwise, or the exception the
\* request or the parsing raised.  Returns (df, None) or (None, message).
NoTable == [columns |-> <<>>, rows |-> <<>>]

load_data_from_github(response) ==
    IF response.raised THEN [df |-> NoTable, error |-> Str(<<"E", "r", "r", "e", "u", "r", ":">>)]
    ELSE IF response.status_code = 200
    THEN LET num_col == NumCol(response.csv)
         IN  [df |-> IF num_col # "" THEN ZfillColumn(response.csv, num_col)
                     ELSE response.csv,
              error |-> NoneV]
    ELSE [df |-> NoTable,
          error |-> Str(<<"E", "r", "r", "e", "u", "r", " ", "H", "T", "T", "P">>)]

\* Lines 140-150 without the fallback: the failed load leaves no table.
TableInUse_no_fallback(loaded) ==
    IF Truthy(loaded.error) THEN NoTable ELSE loaded.df

\* Lines 140-150: the demonstration data replace the table when the load
\* returned an error.
TableInUse(loaded) ==
    IF Truthy(loaded.error) THEN DemoData ELSE loaded.df

K(num) == Str(num)

\* A table as read from the CSV: keys without their leading zeros, one row
\* with an empty Classification, one with an empty Statut, one key twice.
CsvTable ==
    [columns |-> AllColumns,
     rows |-> <<TableRow(K(<<"5", "4">>), Str(<<"L">>), StatutN2, ClassifC, HrbpH),
                TableRow(K(<<"6", "4", "6">>), Str(<<"L">>), Str(<<"N", "1">>), ClassifC, HrbpH),
                TableRow(K(<<"7">>), Str(<<"L">>), StatutN2, NaN, HrbpH),
                TableRow(K(<<"8">>), Str(<<"L">>), NaN, ClassifC, HrbpH),
                TableRow(K(<<"5", "4">>), Str(<<"L">>), StatutN2, ClassifC, Str(<<"z">>))>>]

\* A table none of whose columns names the order number.
CsvTableNoNumCol ==
    [columns |-> <<"Commande", "Statut", "Classification", "HRBP">>,
     rows |-> <<[c \in {"Commande", "Statut", "Classification", "HRBP"} |->
                    CASE c = "Commande" -> K(<<"5", "4">>)
                      [] c = "Statut" -> StatutN2
                      [] c = "Classification" -> ClassifC
                      [] c = "HRBP" -> HrbpH]>>]

Responses ==
    {[raised |-> FALSE, status_code |-> 200, csv |-> CsvTable],
     [raised |-> FALSE, status_code |-> 200, csv |-> CsvTableNoNumCol],
     [raised |-> FALSE, status_code |-> 404, csv |-> NoTable],
     [raised |-> TRUE, status_code |-> 0, csv |-> NoTable]}

\* -------------------------------------------------------------- batch loop
StatutCorrige == "Corrige"
StatutErreur == "Erreur"
StatutNonTrouve == "Non trouve"
StatutInconnu == "Inconnu"

\* A message: the format, the name it embeds and the text it embeds.
Msg(fmt, name, text) == [fmt |-> fmt, name |-> name, text |-> text]

ErreurParsing == "Erreur parsing: {error}"

\* Lines 219-225: the row a file starts with.
NewResult(name) ==
    [Fichier |-> name, Statut |-> "", NumCmd |-> Str(<<>>), Corrections |-> 0,
     Message |-> Msg("", "", <<>>)]

\* An uploaded content: ok tells whether ET.fromstring accepts it, tree is
\* the document it then gives, msg the parser's message otherwise.
XmlContent(tree) == [ok |-> TRUE, tree |-> tree, msg |-> <<>>]
Malformed == [ok |-> FALSE, tree |-> Contract(<<>>), msg |-> <<"s", "y", "n", "t", "a", "x">>]

\* parse_xml_content: (root, None) or (None, str(e)).
parse_xml_content(xml_content) ==
    IF xml_content.ok
    THEN [root |-> xml_content.tree, error |-> NoneV]
    ELSE [root |-> Contract(<<>>), error |-> Str(xml_content.msg)]

\* The loop's accumulators.
Ledger(res, files, total) ==
    [results |-> res, corrected_files |-> files, total_corrections |-> total]

\* Lines 232-236 with the append left out.
ParseErrorBranch_no_row(file_result, err, st) == st

\* Lines 232-236: the parse error row, then continue.
ParseErrorBranch(file_result, err, st) ==
    [st EXCEPT !.results =
        Append(@, [file_result EXCEPT !.Statut = StatutErreur,
                                      !.Message = Msg(ErreurParsing, "", err.s)])]

\* Lines 241-245: no order number, then continue.
NotFoundBranch(file_result, st) ==
    [st EXCEPT !.results =
        Append(@, [file_result EXCEPT
                      !.Statut = StatutNonTrouve,
                      !.Message = Msg("Numero de commande introuvable", "", <<>>)])]

\* Lines 257-261: the order is not in the table, then continue.
UnknownBranch(file_result, num_cmd, st) ==
    [st EXCEPT !.results =
        Append(@, [file_result EXCEPT
                      !.Statut = StatutInconnu,
                      !.Message = Msg("Commande {num_cmd} absente de la base", "",
                                      num_cmd.s)])]

\* Lines 280-282 leaving the loop body without the append of line 284.
ExceptBranch_no_row(file_result, exc, st) == st

\* Lines 280-284: the exception row; exc stands for str(e).  The fields the
\* try block had already set stay as they are.
ExceptBranch(file_result, exc, st) ==
    [st EXCEPT !.results =
        Append(@, [file_result EXCEPT !.Statut = StatutErreur,
                                      !.Message = Msg(exc, "", <<>>)])]

\* Lines 274-284 with the corrected document not kept.
SaveCorrected_not_kept(file_result, name, xml_str, st) ==
    [st EXCEPT !.results = Append(@, file_result)]

\* Lines 274-284: the corrected document is kept and the row appended.
SaveCorrected(file_result, name, xml_str, st) ==
    [st EXCEPT !.corrected_files =
                  Append(@, [name |-> name, content |-> xml_str, original_name |-> name]),
               !.results = Append(@, file_result)]

\* df[num_col].values and df[df[num_col] == num_cmd].iloc[0].to_dict()
KeyValues(table, num_col) == {table.rows[i][num_col] : i \in 1..Len(table.rows)}
FirstRow(table, num_col, num_cmd) ==
    table.rows[CHOOSE i \in 1..Len(table.rows) :
                  /\ table.rows[i][num_col] = num_cmd
                  /\ \A j \in 1..(i - 1) : table.rows[j][num_col] # num_cmd]

\* Lines 263-284: correction, row fields, running total, serialization.
ApplyCorrections(file_result, name, tree, table, num_col, found, st) ==
    IF num_col = "" THEN ExceptBranch(file_result, "KeyError", st)
    ELSE LET commande == FirstRow(table, num_col, found.num_cmd)
             out == correct_xml(tree, commande)
         IN  IF out.raised # "" THEN ExceptBranch(file_result, out.raised, st)
             ELSE LET fr == [file_result EXCEPT
                                !.Statut = StatutCorrige,
                                !.Corrections = Len(out.corrections),
                                !.Message = Msg("Trouve dans <{found_in}>",
                                                found.found_in, <<>>)]
                      st1 == [st EXCEPT !.total_corrections = @ + Len(out.corrections)]
                      xml == tostring(out.root)
                  IN  IF xml.raised # "" THEN ExceptBranch(fr, xml.raised, st1)
                      ELSE SaveCorrected(fr, name, xml.content, st1)

\* Lines 212-284: the body of the loop for one uploaded file.
LoopBody(uploaded_file, table, st) ==
    LET file_result == NewResult(uploaded_file.name)
        parsed == parse_xml_content(uploaded_file.content)
    IN  IF Truthy(parsed.error) THEN ParseErrorBranch(file_result, parsed.error, st)
        ELSE LET found == find_order_number(parsed.root)
                 fr == [file_result EXCEPT !.NumCmd = found.num_cmd]
                 num_col == NumCol(table)
             IN  IF ~Truthy(found.num_cmd) THEN NotFoundBranch(file_result, st)
                 ELSE IF num_col # "" /\ found.num_cmd \notin KeyValues(table, num_col)
                 THEN UnknownBranch(fr, found.num_cmd, st)
                 ELSE ApplyCorrections(fr, uploaded_file.name, parsed.root, table,
                                       num_col, found, st)

\* Lines 204-284: the accumulators after the loop has gone through files.
RECURSIVE RunLoop(_, _, _)
RunLoop(files, table, st) ==
    IF files = <<>> THEN st
    ELSE RunLoop(Tail(files), table, LoopBody(Head(files), table, st))

RunBatch(files, table) == RunLoop(files, table, Ledger(<<>>, <<>>, 0))

\* Lines 296-299: the aggregate statistics.
Statistics(res) ==
    [total_files |-> Len(res),
     success_files |-> Cardinality({i \in 1..Len(res) : res[i].Statut = StatutCorrige}),
     error_files |-> Cardinality({i \in 1..Len(res) : res[i].Statut = StatutErreur}),
     warning_files |->
        Cardinality({i \in 1..Len(res) :
                        res[i].Statut \in {StatutNonTrouve, StatutInconnu}})]

Upload(name, content) == [name |-> name, content |-> content]

\* The files a user may select.
Files ==
    {Upload("a.xml", Malformed),
     Upload("b.xml", XmlContent(Contract(<<Leaf("Item", NoneV)>>))),
     Upload("c.xml", XmlContent(Carrier(<<"9", "9">>))),
     Upload("d.xml", XmlContent(DocDeep(<<" ", "5", "4", " ">>))),
     Upload("e.xml", XmlContent(DocFull(<<"6", "4", "6">>))),
     Upload("f.xml", XmlContent(Carrier(<<"7">>))),
     Upload("d.xml", XmlContent(DocAttr(<<"8">>)))}

Init ==
    /\ pc = "load"
    /\ df = NoTable
    /\ error = NoneV
    /\ errors_shown = 0
    /\ uploaded_files = <<>>
    /\ idx = 0
    /\ results = <<>>
    /\ corrected_files = <<>>
    /\ total_corrections = 0
    /\ stats = <<>>
    /\ root = Contract(<<>>)
    /\ before = Contract(<<>>)
    /\ commande_data = <<>>
    /\ rets = <<>>
    /\ calls = 0

\* Lines 138-150: the table is loaded; an error is shown once and the
\* demonstration data take the table's place.
Load ==
    /\ pc = "load"
    /\ \E response \in Responses :
          LET loaded == load_data_from_github(response)
          IN  /\ error' = loaded.error
              /\ errors_shown' = IF Truthy(loaded.error) THEN errors_shown + 1
                                 ELSE errors_shown
              /\ df' = TableInUse(loaded)
    /\ pc' = "idle"
    /\ UNCHANGED <<uploaded_files, idx, results, corrected_files, total_corrections,
                   stats, unit_vars>>

\* Lines 183-196: the user selects one or more files.
SelectFiles ==
    /\ pc = "idle"
    /\ \E n \in 1..MaxFiles : \E files \in [1..n -> Files] : uploaded_files' = files
    /\ pc' = "ready"
    /\ UNCHANGED <<df, error, errors_shown, idx, results, corrected_files,
                   total_corrections, stats, unit_vars>>

\* Lines 198-209: the button is pressed and the accumulators start empty.
StartBatch ==
    /\ pc = "ready"
    /\ uploaded_files # <<>>
    /\ results' = <<>>
    /\ corrected_files' = <<>>
    /\ total_corrections' = 0
    /\ idx' = 0
    /\ pc' = "loop"
    /\ UNCHANGED <<df, error, errors_shown, uploaded_files, stats, unit_vars>>

\* Lines 212-284: one turn of the loop.
ProcessFile ==
    /\ pc = "loop"
    /\ idx < Len(uploaded_files)
    /\ LET st == LoopBody(uploaded_files[idx + 1], df,
                          Ledger(results, corrected_files, total_corrections))
       IN  /\ results' = st.results
           /\ corrected_files' = st.corrected_files
           /\ total_corrections' = st.total_corrections
    /\ idx' = idx + 1
    /\ UNCHANGED <<pc, df, error, errors_shown, uploaded_files, stats, unit_vars>>

\* Lines 286-308: the loop is over and the statistics are computed.
Finish ==
    /\ pc = "loop"
    /\ idx = Len(uploaded_files)
    /\ stats' = Statistics(results)
    /\ pc' = "done"
    /\ UNCHANGED <<df, error, errors_shown, uploaded_files, idx, results,
                   corrected_files, total_corrections, unit_vars>>

Next == Load \/ SelectFiles \/ StartBatch \/ ProcessFile \/ Finish

Spec == Init /\ [][Next]_vars

\* ------------------------------------------------- properties of the engine
Max0(n) == IF n > 0 THEN n ELSE 0

\* Every path of the tree e, the root's empty path included.
RECURSIVE PathsOf(_)
PathsOf(e) ==
    {<<>>} \cup UNION {{<<i>> \o p : p \in PathsOf(e.children[i])} :
                          i \in 1..Len(e.children)}

\* p comes no later than q in document order.
RECURSIVE DocLE(_, _)
DocLE(p, q) ==
    IF p = <<>> THEN TRUE
    ELSE IF q = <<>> THEN FALSE
    ELSE IF Head(p) # Head(q) THEN Head(p) < Head(q)
    ELSE DocLE(Tail(p), Tail(q))

HasChildWithText(e, tag, text) ==
    \E i \in 1..Len(e.children) : e.children[i].tag = tag /\ e.children[i].text = text

\* e is a PositionCharacteristics holding the values of record cd.
Received(e, cd) ==
    /\ e.tag = PosChar
    /\ \E i \in 1..Len(e.children) :
          /\ e.children[i].tag = "PositionStatus"
          /\ HasChildWithText(e.children[i], "Code", Str(SplitFirst(cd["Statut"].s).tok))
          /\ HasChildWithText(e.children[i], "Description", cd["Statut"])
    /\ HasChildWithText(e, "PositionLevel", cd["Classification"])
    /\ HasChildWithText(e, "PositionCoefficient", cd["HRBP"])

\* The PositionCharacteristics descendants of the tree the call started from.
PosCharPaths ==
    {p \in PathsOf(before) \ {<<>>} : GetAt(before, p).tag = PosChar}

DirectPosChars ==
    {i \in 1..Len(before.children) : before.children[i].tag = PosChar}

\* A new PositionCharacteristics was appended last under the root, holds
\* the values, and its creation is the first change reported.
AppendedUnderRoot ==
    /\ Len(root.children) = Len(before.children) + 1
    /\ Received(root.children[Len(root.children)], commande_data)
    /\ rets[1].corrections # <<>>
    /\ rets[1].corrections[1] = CreationPosChar

NoContainerCreated ==
    /\ Len(root.children) = Len(before.children)
    /\ CreationPosChar \notin Range(rets[1].corrections)

\* C5: once correct_xml has returned normally, a second call with the same
\* record returns normally with an empty change list and leaves the tree
\* exactly as the first call left it.
C5_Idempotent ==
    calls = 2 =>
        /\ rets[2].raised = ""
        /\ rets[2].corrections = <<>>
        /\ root = before

C5_Witness ==
    /\ calls = 2
    /\ Len(rets[1].corrections) = 4
    /\ rets[2].corrections = <<>>
    /\ root = before

FieldEmpty(cd, field) ==
    field \notin DOMAIN cd \/ cd[field].k # "str" \/ cd[field].s = <<>>

\* C6: correct_xml never raises, and a record whose Classification is
\* absent or empty leaves the text of every existing PositionLevel as it was.
C6_NeverFails ==
    calls = 1 =>
        /\ rets[1].raised = ""
        /\ FieldEmpty(commande_data, "Classification") =>
              \A p \in PathsOf(before) :
                  GetAt(before, p).tag = "PositionLevel"
                      => GetAt(root, p).text = GetAt(before, p).text

\* C7 as stated: the PositionCharacteristics that received the values is a
\* direct child of the root, an existing direct child being reused and a
\* new one being appended last and reported otherwise.
C7_DirectChild ==
    (calls = 1 /\ rets[1].raised = "") =>
        IF DirectPosChars # {}
        THEN /\ \E i \in DirectPosChars : Received(root.children[i], commande_data)
             /\ NoContainerCreated
        ELSE AppendedUnderRoot

\* C7 amended: the PositionCharacteristics that received the values is the
\* first one in document order among the root's descendants at any depth,
\* reused without a reported creation; a new one is appended last under the
\* root, and reported, only when the root has no such descendant.
C7_FirstDescendant ==
    (calls = 1 /\ rets[1].raised = "") =>
        IF PosCharPaths # {}
        THEN LET first == CHOOSE p \in PosCharPaths : \A q \in PosCharPaths : DocLE(p, q)
             IN  /\ Received(GetAt(root, first), commande_data)
                 /\ NoContainerCreated
        ELSE AppendedUnderRoot

C7_Witness ==
    /\ calls = 1
    /\ rets[1].raised = ""
    /\ DirectPosChars = {}
    /\ PosCharPaths # {}
    /\ \E p \in PosCharPaths : Len(p) = 2 /\ Received(GetAt(root, p), commande_data)

\* ---------------------------------------------- properties of the extractor
\* The names of search_paths for which some element of the document has a
\* non-empty text, by their rank.
NamesWithText ==
    {i \in 1..Len(search_paths) :
        \E j \in 1..NodeCount(root) :
            Iter(root)[j].tag = search_paths[i] /\ Truthy(Iter(root)[j].text)}

\* C8: the identifier comes from the first name, in precedence order, for
\* which the document holds an element with a non-empty text; the attribute
\* search is used only when there is no such name.
C8_Precedence ==
    calls = 1 =>
        IF NamesWithText # {}
        THEN rets[1].found_in =
                search_paths[CHOOSE i \in NamesWithText : \A j \in NamesWithText : i <= j]
        ELSE rets[1].found_in \notin Range(search_paths)

IsCarrier(e) ==
    /\ Len(e.children) = 1
    /\ e.children[1].tag = "OrderNumber"
    /\ e.children[1].children = <<>>
    /\ Truthy(e.children[1].text)
    /\ e.attrib = EmptyAttrib

\* The raw text the single OrderNumber of a carrier document holds.
RawOf(e) == e.children[1].text.s

\* C9 as stated: the identifier is the trimmed text preceded by the zeros
\* that bring it to 6 characters; it has at least 6 characters and
\* normalizing it again changes nothing.
C9_PadFront ==
    /\ (calls = 1 /\ IsCarrier(root)) =>
          LET t == strip(RawOf(root))
          IN  /\ rets[1].num_cmd = Str(Zeros(Max0(6 - Len(t))) \o t)
              /\ Len(rets[1].num_cmd.s) >= 6
    /\ (calls = 2 /\ IsCarrier(before)) => rets[2].num_cmd = rets[1].num_cmd

\* C9 amended: the identifier is the trimmed text with the zeros that bring
\* it to 6 characters put at the front, or right after the first character
\* when that is a sign; it has at least 6 characters and normalizing it
\* again changes nothing.
C9_PadAfterSign ==
    /\ (calls = 1 /\ IsCarrier(root)) =>
          LET t == strip(RawOf(root))
              r == rets[1].num_cmd.s
              pad == Max0(6 - Len(t))
              k == IF t # <<>> /\ Head(t) \in {"+", "-"} THEN 1 ELSE 0
          IN  /\ rets[1].num_cmd.k = "str"
              /\ rets[1].found_in = "OrderNumber"
              /\ Len(r) = Len(t) + pad
              /\ Len(r) >= 6
              /\ \A i \in 1..Len(r) :
                    r[i] = IF i <= k THEN t[i]
                           ELSE IF i <= k + pad THEN "0"
                           ELSE t[i - pad]
    /\ (calls = 2 /\ IsCarrier(before)) => rets[2].num_cmd = rets[1].num_cmd

C9_Witness ==
    /\ calls = 2
    /\ IsCarrier(before)
    /\ RawOf(before) = <<" ", "-", "5", " ">>
    /\ rets[1].num_cmd = Str(<<"-", "0", "0", "0", "0", "5">>)
    /\ rets[2].num_cmd = rets[1].num_cmd

\* ------------------------------------------------- properties of the batch
IsCorrected(r) == r.Statut = StatutCorrige
IsParseError(r) == r.Statut = StatutErreur /\ r.Message.fmt = ErreurParsing

InBatch == pc \in {"loop", "done"}

NoOutput == [name |-> "", content |-> <<>>, original_name |-> ""]

\* The corrected document kept for the i-th row of a ledger, if any.
OutputOf(res, files, i) ==
    IF IsCorrected(res[i])
    THEN files[Cardinality({j \in 1..i : IsCorrected(res[j])})]
    ELSE NoOutput

RECURSIVE SumCorrected(_)
SumCorrected(res) ==
    IF res = <<>> THEN 0
    ELSE (IF IsCorrected(Head(res)) THEN Head(res).Corrections ELSE 0)
         + SumCorrected(Tail(res))

\* C1: the loop appends exactly one row per file gone through, the i-th row
\* carrying the name of the i-th file; at the end there are as many rows as
\* files.
C1_OneRowPerFile ==
    InBatch =>
        /\ Len(results) = idx
        /\ \A i \in 1..Len(results) : results[i].Fichier = uploaded_files[i].name
        /\ pc = "done" => Len(results) = Len(uploaded_files)

C1_Witness ==
    /\ pc = "done"
    /\ Len(results) = 3
    /\ \E i \in 1..3 : results[i].Message.fmt = "TypeError"
    /\ \E i \in 1..3 : results[i].Message.fmt = "AttributeError"
    /\ \E i \in 1..3 : IsParseError(results[i])

\* C2: when exactly one file of the batch cannot be parsed, the ledger has
\* one row per file, that file's row is the only parse error, and every
\* other row and its corrected output are those of the batch without it.
C2_Isolation ==
    pc = "done" =>
        LET n == Len(uploaded_files)
            bad == {i \in 1..n : ~uploaded_files[i].content.ok}
        IN  Cardinality(bad) = 1 =>
                LET k == CHOOSE i \in bad : TRUE
                    others == [j \in 1..(n - 1) |->
                                  uploaded_files[IF j < k THEN j ELSE j + 1]]
                    alone == RunBatch(others, df)
                IN  /\ Len(results) = n
                    /\ {i \in 1..n : IsParseError(results[i])} = {k}
                    /\ \A i \in (1..n) \ {k} :
                          LET j == IF i < k THEN i ELSE i - 1
                          IN  /\ results[i] = alone.results[j]
                              /\ OutputOf(results, corrected_files, i)
                                    = OutputOf(alone.results, alone.corrected_files, j)

C2_Witness ==
    /\ pc = "done"
    /\ Len(results) = 3
    /\ IsCorrected(results[1])
    /\ IsParseError(results[2])
    /\ IsCorrected(results[3])
    /\ Len(corrected_files) = 2

\* C3: the documents kept for download are exactly the rows with status
\* Corrected, in the order of the rows, each with its serialized content.
C3_KeptIffCorrected ==
    InBatch =>
        LET corr == SelectSeq(results, IsCorrected)
        IN  /\ Len(corrected_files) = Len(corr)
            /\ \A j \in 1..Len(corr) :
                  /\ corrected_files[j].name = corr[j].Fichier
                  /\ PosChar \in Range(corrected_files[j].content)

C3_Witness ==
    /\ pc = "done"
    /\ Len(results) = 3
    /\ IsCorrected(results[2])
    /\ results[1].Statut = StatutErreur /\ results[1].Corrections > 0
    /\ results[3].Statut = StatutInconnu
    /\ Len(corrected_files) = 1

\* C4 as stated: after a failed load no file is gone through and no row is
\* produced.
C4_NoProcessing ==
    Truthy(error) => idx = 0 /\ results = <<>> /\ corrected_files = <<>>

\* C4 amended: after a failed load the error has been shown once, the
\* demonstration data are the table in use, and the batch goes through the
\* files against them, one row per file.
C4_DemoFallback ==
    Truthy(error) =>
        /\ errors_shown = 1
        /\ df = DemoData
        /\ InBatch =>
              /\ Len(results) = idx
              /\ results = RunBatch(SubSeq(uploaded_files, 1, idx), DemoData).results

C4_Witness ==
    /\ Truthy(error)
    /\ pc = "done"
    /\ \E i \in 1..Len(results) :
          /\ IsCorrected(results[i])
          /\ results[i].NumCmd = Str(<<"0", "0", "0", "0", "5", "4">>)

\* C10: the total of structural changes is the sum of the changes of the
\* rows with status Corrected, and every other row reports 0 corrections.
C10_TotalOfCorrected ==
    pc = "done" =>
        /\ total_corrections = SumCorrected(results)
        /\ \A i \in 1..Len(results) :
              ~IsCorrected(results[i]) => results[i].Corrections = 0
====
